---- MODULE Spec2Model ----
(***************************************************************************)
(* A model of fuzzy.py, the interpreter of the 3.0 programming language:   *)
(* the FuzzyDict (fuzzy key matching), the word/number conversions and the *)
(* arithmetic of the Lexicon, its statement aliases with tight matching,   *)
(* and the parser and the statement executor of the Interpreter.           *)
(*                                                                         *)
(* A word (a Python str) is a sequence of one-character strings.  None is  *)
(* the one-element sequence <<"None">>, which is no word.  A dict is a     *)
(* function whose DOMAIN is the set of stored keys.                        *)
(***************************************************************************)
EXTENDS Integers, Sequences, FiniteSets, TLC

VARIABLES
    fd_strict,        \* FuzzyDict.strict of the dictionary under test
    fd_base,          \* FuzzyDict.base
    fd_data,          \* FuzzyDict.data
    fd_key,           \* the key argument of the last __setitem__ call
    fd_value,         \* the value argument of the last __setitem__ call
    fd_raised,        \* TRUE iff the last __setitem__ call raised KeyError
    programs,         \* Interpreter.programs
    current_program,  \* Interpreter.current_program
    pointer,          \* Interpreter.pointer
    returns,          \* Interpreter.returns
    variables,        \* Interpreter.variables.data
    var_base,         \* Interpreter.variables.base, the same set object as
                      \* lexicon.variables.base (copy() is shallow)
    output,           \* what the current call of execute has printed
    status,           \* "idle" before the first call of execute, then
                      \* "running", "done", "KeyError" or "IndexError"
    nm_call,          \* the last call of a Lexicon number method: its name
                      \* and its arguments
    nm_res,           \* what that call returned, or that it never returns
    lex_file,         \* the lexicon file handed to Lexicon.__init__
    lex_status,       \* "file" before Lexicon.__init__, then "loaded" or
                      \* "NameError"
    commands,         \* Lexicon.commands
    breaks,           \* Lexicon.breaks
    tight_word,       \* the argument of the last call of Lexicon.tight
    tight_result,     \* what that call returned
    code_file,        \* the words of the code file handed to Interpreter.parse
    raw_code,         \* the token stack of Interpreter.parse, top first
    parsed,           \* programs[name] while parse builds it
    od_items,         \* the (key, value) pairs set so far in a strict
                      \* FuzzyDict, in the order of the calls
    od_base,          \* FuzzyDict.base of that dictionary
    od_data,          \* FuzzyDict.data of that dictionary
    od_raised         \* TRUE iff one of the calls raised KeyError

vars == <<fd_strict, fd_base, fd_data, fd_key, fd_value, fd_raised, programs, current_program,
          pointer, returns, variables, var_base, output, status,
          nm_call, nm_res, lex_file, lex_status, commands, breaks,
          tight_word, tight_result, code_file, raw_code, parsed,
          od_items, od_base, od_data, od_raised>>

fd_vars == <<fd_strict, fd_base, fd_data, fd_key, fd_value, fd_raised>>
in_vars == <<programs, current_program, pointer, returns, variables,
             var_base, output, status>>
nm_vars == <<nm_call, nm_res>>
lx_vars == <<lex_file, lex_status, commands, breaks, tight_word, tight_result>>
ps_vars == <<code_file, raw_code, parsed>>
od_vars == <<od_items, od_base, od_data, od_raised>>
lib_vars == <<nm_vars, lx_vars, ps_vars, od_vars>>

-----------------------------------------------------------------------------
(* Bounds *)

\* Longest word handed to the dictionary under test.
MaxLen == 2
\* Most base keys the dictionary under test may hold.
MaxBase == 2
\* Longest word handed to the number methods of the Lexicon.
MaxWord == 3
\* Largest part, in absolute value, of a fraction handed to Lexicon.word.
MaxFrac == 12
\* Most statement lines of a lexicon file, and most aliases of its only
\* line when it has one line.
MaxLines == 3
\* Most words of a code file handed to the parser.
MaxTokens == 4
\* Longest generated program.
MaxProgLen == 3
\* Deepest returns stack: go is not executed beyond it.
MaxReturns == 3
\* Most lines of output: print and calculate are not executed beyond it.
MaxOutput == 4
\* Most calls of __setitem__ on the dictionary filled in any order.
MaxInserts == 3

-----------------------------------------------------------------------------
(* Python values *)

None == <<"None">>

EmptyDict == <<>>

\* d[k] = v on a dict.
Put(d, k, v) == [x \in (DOMAIN d) \cup {k} |-> IF x = k THEN v ELSE d[x]]

\* The set of the elements of a sequence.
Range(s) == {s[i] : i \in 1..Len(s)}

------------------------------------------------------------------------\* No Lexicon number method has been called.
NmIdle ==
    /\ nm_call = [op |-> "none", a |-> <<>>, b |-> <<>>, frac |-> <<0, 0, 1>>]
    /\ nm_res = [word |-> <<>>, number |-> <<0, 1>>]

\* No lexicon file is being read.
LxIdle ==
    /\ lex_file = <<>>
    /\ lex_status = "none"
    /\ commands = <<>>
    /\ breaks = <<>>
    /\ tight_word = <<>>
    /\ tight_result = ""

\* No program is being parsed.
PsIdle ==
    /\ code_file = <<>>
    /\ raw_code = <<>>
    /\ parsed = <<>>

\* FuzzyDict.__init__ of the strict dictionary: nothing has been set.
OdIdle ==
    /\ od_items = <<>>
    /\ od_base = {}
    /\ od_data = EmptyDict
    /\ od_raised = FALSE

-----
(* FuzzyDict *)

\* FuzzyDict._trim: keep the characters of chars, in order.
trim(chars, word) == SelectSeq(word, LAMBDA c : c \in Range(chars))

\* FuzzyDict._fuzzies: the generator's items in the order it yields them,
\* from loop position p on (index = p div len(chars), new = p mod len(chars)).
RECURSIVE fuzziesFrom(_, _, _)
fuzziesFrom(chars, w, p) ==
    IF p >= Len(w) * Len(chars) THEN <<>>
    ELSE LET index == (p \div Len(chars)) + 1
             new   == chars[(p % Len(chars)) + 1]
             rest  == fuzziesFrom(chars, w, p + 1)
         IN  IF w[index] # new
             THEN <<[w EXCEPT ![index] = new]>> \o rest
             ELSE rest

\* _fuzzies that never substitutes the last character of chars.
fuzzies_short(chars, word) ==
    fuzziesFrom(SubSeq(chars, 1, Len(chars) - 1), trim(chars, word), 0)

fuzzies(chars, word) == fuzziesFrom(chars, trim(chars, word), 0)

\* FuzzyDict.__getitem__
getitem(chars, data, key) ==
    LET k == trim(chars, key)
    IN  IF k \in DOMAIN data THEN data[k] ELSE None

\* The loop of __setitem__ without the nerfing branch: an ambiguous fuzzy
\* match takes the newest value.
RECURSIVE nerf_overwrite(_, _, _, _, _)
nerf_overwrite(data, base, fz, value, i) ==
    IF i > Len(fz) THEN data
    ELSE nerf_overwrite(IF fz[i] \notin base THEN Put(data, fz[i], value)
                        ELSE data,
                        base, fz, value, i + 1)

\* The loop of __setitem__ without its tests on base: every fuzzy match
\* already stored is nerfed, base keys included.
RECURSIVE nerf_unprotected(_, _, _, _, _)
nerf_unprotected(data, base, fz, value, i) ==
    IF i > Len(fz) THEN data
    ELSE nerf_unprotected(IF fz[i] \in DOMAIN data
                          THEN Put(data, fz[i], None)
                          ELSE Put(data, fz[i], value),
                          base, fz, value, i + 1)

\* The loop of FuzzyDict.__setitem__ over the fuzzy matches fz[i..].
RECURSIVE nerf(_, _, _, _, _)
nerf(data, base, fz, value, i) ==
    IF i > Len(fz) THEN data
    ELSE LET fuzzed == fz[i]
             d == IF fuzzed \in DOMAIN data /\ fuzzed \notin base
                  THEN Put(data, fuzzed, None)
                  ELSE IF fuzzed \notin base
                       THEN Put(data, fuzzed, value)
                       ELSE data
         IN  nerf(d, base, fz, value, i + 1)

\* __setitem__ with the distinct-key check after the writes instead of
\* before them.
setitem_late_check(chars, strict, base, data, key, value) ==
    LET k == trim(chars, key)
        b == base \cup {k}
    IN  [raised |-> k \in base /\ strict, base |-> b,
         data |-> nerf(Put(data, k, value), b, fuzzies(chars, k), value, 1)]

\* FuzzyDict.__setitem__: the dictionary after the call, and whether it
\* raised KeyError.
setitem(chars, strict, base, data, key, value) ==
    LET k == trim(chars, key)
    IN  IF k \in base /\ strict
        THEN [raised |-> TRUE, base |-> base, data |-> data]
        ELSE LET b == base \cup {k}
             IN  [raised |-> FALSE, base |-> b,
                  data |-> nerf(Put(data, k, value), b, fuzzies(chars, k),
                                value, 1)]

-----------------------------------------------------------------------------
(* The dictionary under test: inserts of arbitrary words and values. *)

\* FuzzyDict.chars of the dictionary under test.
FChars == <<"a", "b", "c">>

\* Characters of the words looked up: its chars and one other.
FAlphabet == Range(FChars) \cup {"x"}

\* Characters of the keys inserted: two of its chars, so that the third
\* occurs in derived keys only.
FInsertAlphabet == {"a", "b"}

RECURSIVE WordsUpTo(_, _)
WordsUpTo(alphabet, n) ==
    IF n = 0 THEN {<<>>}
    ELSE LET shorter == WordsUpTo(alphabet, n - 1)
         IN  shorter \cup {Append(w, c) : w \in shorter, c \in alphabet}

FWords == WordsUpTo(FAlphabet, MaxLen)

\* The words inserted: the keys, and the shorter keys behind a character
\* that is not in chars.
FInsertWords ==
    WordsUpTo(FInsertAlphabet, MaxLen)
        \cup {<<"x">> \o w : w \in WordsUpTo(FInsertAlphabet, MaxLen - 1)}

FValues == {<<"x">>, <<"y">>}

FdInit ==
    /\ fd_strict \in BOOLEAN
    /\ fd_base = {}
    /\ fd_data = EmptyDict
    /\ fd_key = <<>>
    /\ fd_value = None
    /\ fd_raised = FALSE

FdSetItem ==
    \E key \in FInsertWords, value \in FValues :
        /\ \/ Cardinality(fd_base) < MaxBase
           \/ trim(FChars, key) \in fd_base
        /\ LET r == setitem(FChars, fd_strict, fd_base, fd_data, key, value)
           IN  /\ fd_key' = key
               /\ fd_value' = value
               /\ fd_raised' = r.raised
               /\ fd_base' = r.base
               /\ fd_data' = r.data
        /\ UNCHANGED fd_strict
        /\ UNCHANGED <<in_vars, lib_vars>>

InIdle ==
    /\ programs = EmptyDict
    /\ current_program = <<>>
    /\ pointer = 0
    /\ returns = <<>>
    /\ variables = EmptyDict
    /\ var_base = {}
    /\ output = <<>>
    /\ status = "idle"

InitFuzzy == FdInit /\ InIdle /\ NmIdle /\ LxIdle /\ PsIdle /\ OdIdle

NextFuzzy == FdSetItem

SpecFuzzy == InitFuzzy /\ [][NextFuzzy]_vars

-----------------------------------------------------------------------------
(* Lexicon: the character classes and the word/number conversions *)

\* Lexicon.digits, Lexicon.decimals and Lexicon.signs of the lexicon in use.
Digits == <<"a", "b", "c", "d", "e", "f", "g", "h", "i", "j">>
Decimals == <<".">>
Signs == <<"-">>

\* Lexicon.base
lex_base == Len(Digits)

\* Lexicon.chars
LexChars == Digits \o Decimals \o Signs

\* str.index: the 0-based position of the first c in s (c occurs in s).
index(s, c) == (CHOOSE i \in 1..Len(s) : s[i] = c /\ \A j \in 1..(i - 1) : s[j] # c) - 1

\* str.count
count(word, c) == Cardinality({i \in 1..Len(word) : word[i] = c})

\* The two sign loops of Lexicon.fraction and Lexicon.int.
RECURSIVE sign_count(_, _)
sign_count(word, i) ==
    IF i > Len(Signs) THEN 0
    ELSE count(word, Signs[i]) + sign_count(word, i + 1)

\* The scanning loop of Lexicon.fraction from character i on.
RECURSIVE fractionFrom(_, _, _, _, _, _)
fractionFrom(word, i, whole, numerator, denominator, whole_mode) ==
    IF i > Len(word) THEN <<whole, numerator, denominator>>
    ELSE LET char == word[i]
         IN  IF char \in Range(Digits)
             THEN IF whole_mode
                  THEN fractionFrom(word, i + 1,
                                    whole * lex_base + index(Digits, char),
                                    numerator, denominator, whole_mode)
                  ELSE fractionFrom(word, i + 1, whole,
                                    numerator * lex_base + index(Digits, char),
                                    denominator * lex_base, whole_mode)
             ELSE fractionFrom(word, i + 1, whole, numerator, denominator,
                               whole_mode /\ char \notin Range(Decimals))

\* Lexicon.fraction: <<whole, numerator, denominator>>.
fraction(word) ==
    LET f == fractionFrom(word, 1, 0, 0, 1, TRUE)
    IN  IF sign_count(word, 1) % 2 = 1
        THEN <<(-1) * f[1], f[2], f[3]>>
        ELSE f

\* The scanning loop of Lexicon.int from character i on.
RECURSIVE intFrom(_, _, _)
intFrom(word, i, whole) ==
    IF i > Len(word) THEN whole
    ELSE LET char == word[i]
         IN  IF char \in Range(Digits)
             THEN intFrom(word, i + 1, whole * lex_base + index(Digits, char))
             ELSE IF char \in Range(Decimals)
                  THEN whole
                  ELSE intFrom(word, i + 1, whole)

\* Lexicon.int (named lex_int here)
lex_int(word) ==
    LET whole == intFrom(word, 1, 0)
    IN  IF sign_count(word, 1) % 2 = 1 THEN (-1) * whole ELSE whole

\* A Python number is the exact rational <<n, d>>, d > 0, standing for n / d.
\* Lexicon.float: whole + numerator / denominator.
float(word) ==
    LET f == fraction(word)
    IN  <<f[1] * f[3] + f[2], f[3]>>

\* Lexicon.num: the same number, an int when the numerator is zero.
num(word) ==
    LET f == fraction(word)
    IN  IF f[2] # 0 THEN <<f[1] * f[3] + f[2], f[3]>> ELSE <<f[1], 1>>

\* bool(x), x == y, x > y and x < y on numbers.
truthy(x) == x[1] # 0
num_eq(x, y) == x[1] * y[2] = y[1] * x[2]
num_gt(x, y) == x[1] * y[2] > y[1] * x[2]
num_lt(x, y) == x[1] * y[2] < y[1] * x[2]

-----------------------------------------------------------------------------
(* Lexicon: words from numbers, and arithmetic on words *)

\* What a call that never returns yields: no word.
Hangs == <<"Hangs">>

\* The loop of Lexicon.word over the whole part.  divmod floors, so a negative
\* whole reaches -1 and stays there: divmod(-1, base) = (-1, base - 1).
RECURSIVE whole_chars(_, _)
whole_chars(whole, chars) ==
    IF whole = 0 THEN chars
    ELSE IF whole \div lex_base = whole THEN Hangs
    ELSE whole_chars(whole \div lex_base,
                     <<Digits[(whole % lex_base) + 1]>> \o chars)

\* The loop of Lexicon.word over the leading zeros of the fractional part.
\* With a negative numerator the denominator reaches 0 and stays there.
RECURSIVE leading_zeros(_, _, _)
leading_zeros(numerator, denominator, chars) ==
    IF ~(numerator * lex_base < denominator) THEN chars
    ELSE IF denominator \div lex_base = denominator THEN Hangs
    ELSE leading_zeros(numerator, denominator \div lex_base,
                       Append(chars, Digits[1]))

\* The loop of Lexicon.word over the digits of the numerator.
RECURSIVE right_chars(_, _)
right_chars(numerator, chars) ==
    IF numerator = 0 THEN chars
    ELSE IF numerator \div lex_base = numerator THEN Hangs
    ELSE right_chars(numerator \div lex_base,
                     <<Digits[(numerator % lex_base) + 1]>> \o chars)

\* Lexicon.word: the word of the fraction <<whole, numerator, denominator>>.
word(frac) ==
    LET chars == whole_chars(frac[1], <<>>)
    IN  IF chars = Hangs THEN Hangs
        ELSE IF frac[2] = 0 THEN chars
        ELSE LET zeros == leading_zeros(frac[2], frac[3],
                                        Append(chars, Decimals[1]))
             IN  IF zeros = Hangs THEN Hangs
                 ELSE LET right == right_chars(frac[2], <<>>)
                      IN  IF right = Hangs THEN Hangs ELSE zeros \o right

\* One loop of Lexicon.conform: scale x until its denominator reaches y's.
RECURSIVE conform_to(_, _)
conform_to(x, y) ==
    IF x[3] < y[3]
    THEN conform_to(<<x[1], x[2] * lex_base, x[3] * lex_base>>, y)
    ELSE x

\* Lexicon.conform
conform(x, y) ==
    LET x2 == conform_to(x, y)
    IN  <<x2, conform_to(y, x2)>>

\* Lexicon.add
add(a, b) ==
    LET c == conform(fraction(a), fraction(b))
        x == c[1]
        y == c[2]
    IN  word(<<x[1] + y[1], x[2] + y[2], x[3]>>)

\* Lexicon.subtract
subtract(a, b) ==
    LET c == conform(fraction(a), fraction(b))
        x == c[1]
        y == c[2]
    IN  word(<<x[1] - y[1], x[2] - y[2], x[3]>>)

\* What a call that raises yields: no word.
ZeroDivisionError == <<"ZeroDivisionError">>
TypeError == <<"TypeError">>
AttributeError == <<"AttributeError">>

\* Lexicon.multiply.  The denominator is the product of the two numerators;
\* divmod by 0 raises ZeroDivisionError.
multiply(a, b) ==
    LET x == fraction(a)
        y == fraction(b)
        numerator == (x[1] * x[3] + x[2]) * (y[1] * y[3] + y[2])
        denominator == x[2] * y[2]
    IN  IF numerator > denominator
        THEN IF denominator = 0 THEN ZeroDivisionError
             ELSE word(<<numerator \div denominator, numerator % denominator,
                         denominator>>)
        ELSE word(<<0, numerator, denominator>>)

\* Lexicon.mod: x is the float of a, and x[0] raises TypeError.
mod(a, b) == TypeError

-----------------------------------------------------------------------------
(* Lexicon: reading the statement aliases, and tight matching *)

\* Lexicon.statements, listed in the order of Python's string comparison.
statements ==
    <<"assign", "calculate", "exit", "go", "if", "print", "return">>

\* A line of the lexicon file after split(':'): the key and the aliases of
\* value.split(',').  The lines digits, decimals and signs are the first of
\* the file: they give Digits, Decimals and Signs.
LexLine(key, value) == [key |-> key, value |-> value]

\* The loop over the aliases of one line: a statement alias is recorded
\* with its number.
RECURSIVE read_aliases(_, _, _)
read_aliases(cmds, key, value) ==
    IF value = <<>> THEN cmds
    ELSE read_aliases(IF key \in Range(statements)
                      THEN Append(cmds, <<float(Head(value)), key>>)
                      ELSE cmds,
                      key, Tail(value))

\* The loop over the lines of the file: the local list commands.
RECURSIVE read_lines(_, _)
read_lines(cmds, file) ==
    IF file = <<>> THEN cmds
    ELSE read_lines(read_aliases(cmds, Head(file).key, Head(file).value),
                    Tail(file))

\* The order of the tuples (number, name) that commands.sort() uses.
command_le(p, q) ==
    \/ num_lt(p[1], q[1])
    \/ /\ num_eq(p[1], q[1])
       /\ index(statements, p[2]) <= index(statements, q[2])

RECURSIVE sort_insert(_, _)
sort_insert(sorted, p) ==
    IF sorted = <<>> THEN <<p>>
    ELSE IF command_le(p, Head(sorted)) THEN <<p>> \o sorted
    ELSE <<Head(sorted)>> \o sort_insert(Tail(sorted), p)

\* commands.sort()
RECURSIVE sort(_)
sort(cmds) ==
    IF cmds = <<>> THEN <<>>
    ELSE sort_insert(sort(Tail(cmds)), Head(cmds))

\* A mutant of midpoint: the break is the first of the two numbers.
midpoint_first(first, second) == first

\* first[0] + (second[0] - first[0]) / 2
midpoint(first, second) ==
    <<first[1] * second[2] + second[1] * first[2], 2 * first[2] * second[2]>>

\* self.commands after the bisection loop and the final append.
bisection_commands(sorted) == [i \in 1..Len(sorted) |-> sorted[i][2]]

\* A mutant of bisection_breaks: a break after the last command as well.
bisection_breaks_extra(sorted) ==
    [i \in 1..Len(sorted) |->
        IF i < Len(sorted) THEN midpoint(sorted[i][1], sorted[i + 1][1])
        ELSE sorted[i][1]]

\* self.breaks after the bisection loop.
bisection_breaks(sorted) ==
    [i \in 1..(Len(sorted) - 1) |->
        midpoint(sorted[i][1], sorted[i + 1][1])]

\* bisect.bisect (bisect_right): the binary search for the first item of a
\* that is greater than x.
RECURSIVE bisect_loop(_, _, _, _)
bisect_loop(a, x, lo, hi) ==
    IF lo < hi
    THEN LET mid == (lo + hi) \div 2
         IN  IF num_lt(x, a[mid + 1])
             THEN bisect_loop(a, x, lo, mid)
             ELSE bisect_loop(a, x, mid + 1, hi)
    ELSE lo

\* A mutant of bisect: the search stops one item before the end of a.
bisect_short(a, x) ==
    IF a = <<>> THEN 0 ELSE bisect_loop(a, x, 0, Len(a) - 1)

bisect(a, x) == bisect_loop(a, x, 0, Len(a))

\* Lexicon.tight, on the lists self.commands and self.breaks.
tight(cmds, brks, w) ==
    LET i == bisect(brks, float(w))
    IN  IF i < Len(cmds) THEN cmds[i + 1] ELSE "IndexError"

-----------------------------------------------------------------------------
(* Interpreter: expressions *)

\* An expression of a parsed program: a str (head = "") or a list whose first
\* item is the function name and whose other items are the arguments.
Leaf(w) == [head |-> "", word |-> w, args |-> <<>>]
Call(f, a) == [head |-> f, word |-> <<>>, args |-> a]

\* The words the func_ methods return.
aceyz == <<"a", "c", "e", "y", "z">>
bozob == <<"b", "o", "z", "o", "b">>

RECURSIVE evaluate(_, _)

\* Interpreter.func_and
func_and(vd, left, right) ==
    LET l == evaluate(vd, left)
        r == evaluate(vd, right)
    IN  IF truthy(num(l)) /\ truthy(num(r)) THEN l
        ELSE IF truthy(num(l)) THEN r
        ELSE l

\* Interpreter.func_concatenate
func_concatenate(vd, left, right) ==
    evaluate(vd, left) \o evaluate(vd, right)

\* Interpreter.func_equal
func_equal(vd, left, right) ==
    IF num_eq(num(evaluate(vd, left)), num(evaluate(vd, right)))
    THEN aceyz ELSE bozob

\* Interpreter.func_false
func_false == <<"b", "o", "z", "o">>

\* Interpreter.func_greater
func_greater(vd, left, right) ==
    IF num_gt(num(evaluate(vd, left)), num(evaluate(vd, right)))
    THEN aceyz ELSE bozob

\* Interpreter.func_left
func_left(vd, text, length) ==
    LET t == evaluate(vd, text)
        n == lex_int(evaluate(vd, length)) % (Len(t) + 1)
    IN  SubSeq(t, 1, n)

\* Interpreter.func_less
func_less(vd, left, right) ==
    IF num_lt(num(evaluate(vd, left)), num(evaluate(vd, right)))
    THEN aceyz ELSE bozob

\* Interpreter.func_not
func_not(vd, value) ==
    IF evaluate(vd, value) # <<>> THEN aceyz ELSE bozob

\* Interpreter.func_or
func_or(vd, left, right) ==
    LET l == evaluate(vd, left)
        r == evaluate(vd, right)
    IN  IF truthy(num(l)) THEN l
        ELSE IF truthy(num(r)) THEN r
        ELSE l

\* Interpreter.func_period
func_period == <<".">>

\* Interpreter.func_right
func_right(vd, text, length) ==
    LET t == evaluate(vd, text)
        n == lex_int(evaluate(vd, length)) % (Len(t) + 1)
    IN  SubSeq(t, n + 1, Len(t))

\* Interpreter.func_space
func_space == <<" ">>

\* Interpreter.func_true
func_true == <<"a", "c", "e">>

\* Interpreter.func_modulus: the Lexicon has no attribute modulus.
func_modulus(vd, x, y) ==
    LET xv == evaluate(vd, x)
        yv == evaluate(vd, y)
    IN  AttributeError

\* Interpreter.func_multiply
func_multiply(vd, x, y) ==
    multiply(evaluate(vd, x), evaluate(vd, y))

\* Interpreter.handle_function
handle_function(vd, call) ==
    CASE call.head = "and"         -> func_and(vd, call.args[1], call.args[2])
      [] call.head = "concatenate" -> func_concatenate(vd, call.args[1], call.args[2])
      [] call.head = "equal"       -> func_equal(vd, call.args[1], call.args[2])
      [] call.head = "false"       -> func_false
      [] call.head = "greater"     -> func_greater(vd, call.args[1], call.args[2])
      [] call.head = "left"        -> func_left(vd, call.args[1], call.args[2])
      [] call.head = "less"        -> func_less(vd, call.args[1], call.args[2])
      [] call.head = "modulus"     -> func_modulus(vd, call.args[1], call.args[2])
      [] call.head = "multiply"    -> func_multiply(vd, call.args[1], call.args[2])
      [] call.head = "not"         -> func_not(vd, call.args[1])
      [] call.head = "or"          -> func_or(vd, call.args[1], call.args[2])
      [] call.head = "period"      -> func_period
      [] call.head = "right"       -> func_right(vd, call.args[1], call.args[2])
      [] call.head = "space"       -> func_space
      [] call.head = "true"        -> func_true

\* Interpreter.evaluate, on the variables dict vd.
evaluate(vd, expression) ==
    IF expression.head # ""
    THEN handle_function(vd, expression)
    ELSE IF getitem(LexChars, vd, expression.word) # None
         THEN getitem(LexChars, vd, expression.word)
         ELSE expression.word

-----------------------------------------------------------------------------
(* Interpreter: the parser *)

\* Interpreter.args: the number of arguments of every statement and
\* function.
args ==
    [name \in {"add", "and", "assign", "concatenate", "divide", "equal",
               "greater", "left", "less", "modulus", "more", "multiply",
               "or", "power", "right", "subtract"} |-> 2]
    @@ [name \in {"calculate", "go", "if", "input", "not", "print"} |-> 1]
    @@ [name \in {"exit", "false", "period", "return", "space", "true"} |-> 0]

\* The lexicon of the parser: every statement and the functions add, false
\* and not under their own names.  The letters of not are no characters of
\* the lexicon, so not is stored under the empty key.
ParseStatementLines ==
    << LexLine("assign", << <<"a", "s", "s", "i", "g", "n">> >>),
       LexLine("calculate",
               << <<"c", "a", "l", "c", "u", "l", "a", "t", "e">> >>),
       LexLine("exit", << <<"e", "x", "i", "t">> >>),
       LexLine("go", << <<"g", "o">> >>),
       LexLine("if", << <<"i", "f">> >>),
       LexLine("print", << <<"p", "r", "i", "n", "t">> >>),
       LexLine("return", << <<"r", "e", "t", "u", "r", "n">> >>) >>

ParseFunctionLines ==
    << LexLine("add", << <<"a", "d", "d">> >>),
       LexLine("false", << <<"f", "a", "l", "s", "e">> >>),
       LexLine("not", << <<"n", "o", "t">> >>) >>

\* The loop over the lines of the file: self.keywords[alias] = key for the
\* aliases of a function, in the strict FuzzyDict keywords.  A stored value
\* is the one-element sequence of the function name.
RECURSIVE read_keywords(_, _)
read_keywords(kw, file) ==
    IF file = <<>> THEN kw
    ELSE LET line == Head(file)
             put == setitem(LexChars, TRUE, kw.base, kw.data,
                            line.value[1], <<line.key>>)
         IN  read_keywords(IF line.key \in Range(statements) THEN kw ELSE put,
                           Tail(file))

\* lexicon.commands, lexicon.breaks and lexicon.keywords of the parser.
parse_commands == bisection_commands(sort(read_lines(<<>>, ParseStatementLines)))
parse_breaks == bisection_breaks(sort(read_lines(<<>>, ParseStatementLines)))
keywords ==
    read_keywords([raised |-> FALSE, base |-> {}, data |-> EmptyDict],
                  ParseFunctionLines).data

\* A mutant of parse_args: the arguments of a function are not parsed.
RECURSIVE parse_args_flat(_, _, _, _)
parse_args_flat(head, done, k, raw) ==
    IF k = 0 THEN [ok |-> TRUE, node |-> Call(head, done), rest |-> raw]
    ELSE IF raw = <<>>
    THEN [ok |-> FALSE, node |-> Call(head, done), rest |-> raw]
    ELSE LET arg == Head(raw)
             function == getitem(LexChars, keywords, arg)
         IN  IF function # None
             THEN parse_args_flat(head, Append(done, Call(function[1], <<>>)),
                                  k - 1, Tail(raw))
             ELSE parse_args_flat(head, Append(done, Leaf(arg)), k - 1,
                                  Tail(raw))

\* Interpreter.parse_args, for the line that starts with head, has the
\* arguments done and lacks k more.  ok is FALSE when raw_code.pop() raised
\* IndexError; node is then the line as far as it was built.
RECURSIVE parse_args(_, _, _, _)
parse_args(head, done, k, raw) ==
    IF k = 0 THEN [ok |-> TRUE, node |-> Call(head, done), rest |-> raw]
    ELSE IF raw = <<>>
    THEN [ok |-> FALSE, node |-> Call(head, done), rest |-> raw]
    ELSE LET arg == Head(raw)
             function == getitem(LexChars, keywords, arg)
         IN  IF function # None
             THEN LET sub == parse_args(function[1], <<>>, args[function[1]],
                                        Tail(raw))
                  IN  IF sub.ok
                      THEN parse_args(head, Append(done, sub.node), k - 1,
                                      sub.rest)
                      ELSE [ok |-> FALSE,
                            node |-> Call(head, Append(done, sub.node)),
                            rest |-> sub.rest]
             ELSE parse_args(head, Append(done, Leaf(arg)), k - 1, Tail(raw))

\* A mutant of parse_line: the line is stored as far as it was built.
parse_line_partial(raw) ==
    LET statement == tight(parse_commands, parse_breaks, Head(raw))
        parsed_args == parse_args(statement, <<>>, args[statement], Tail(raw))
    IN  [line |-> parsed_args.node, rest |-> parsed_args.rest]

\* One turn of the loop of Interpreter.parse: the line stored and the stack
\* left.
parse_line(raw) ==
    LET statement == tight(parse_commands, parse_breaks, Head(raw))
        parsed_args == parse_args(statement, <<>>, args[statement], Tail(raw))
    IN  [line |-> IF parsed_args.ok THEN parsed_args.node
                  ELSE Call("exit", <<>>),
         rest |-> parsed_args.rest]

-----------------------------------------------------------------------------
(* Interpreter: statements *)

\* What print wrote for a word, and what it wrote for a number.
Printed(w) == [kind |-> "word", word |-> w, num |-> <<0, 1>>]
PrintedNum(x, k) == [kind |-> k, word |-> <<>>, num |-> x]

\* Lexicon.variables.data: nothing is ever stored in it.
lexicon_variables == EmptyDict

\* The line execute fetches, and the guard of the loop body for a statement.
Line == current_program[pointer + 1]

Fetch(statement) ==
    /\ status = "running"
    /\ pointer < Len(current_program)
    /\ Line.head = statement

\* The check at the end of the loop body with > in the place of >=.
Finish_late(p) == IF p > Len(current_program) THEN "done" ELSE "running"

\* The check at the end of the loop body of execute.
Finish(p) == IF p >= Len(current_program) THEN "done" ELSE "running"

\* exec_go without the shift from line numbers to indices.
exec_go_unshifted(vd, target, program) ==
    lex_int(evaluate(vd, target)) % Len(program)

\* Interpreter.exec_go: the pointer it sets.
exec_go_target(vd, target, program) ==
    (lex_int(evaluate(vd, target)) - 1) % Len(program)

\* exec_exit that moves the pointer to the last line, not past it.
exec_exit_last(program) == Len(program) - 1

\* Interpreter.exec_exit: the pointer it sets.
exec_exit_pointer(program) == Len(program)

\* Interpreter.exec_if: TRUE iff the next statement is skipped.
exec_if_skip(vd, value) == ~truthy(float(evaluate(vd, value)))

\* exec_return that takes the oldest entry of the stack.
exec_return_oldest(stack, p) ==
    IF stack # <<>>
    THEN [pointer |-> stack[1], returns |-> SubSeq(stack, 2, Len(stack))]
    ELSE [pointer |-> p, returns |-> stack]

\* Interpreter.exec_return: the pointer and the stack after the call.
exec_return(stack, p) ==
    IF stack # <<>>
    THEN [pointer |-> stack[Len(stack)], returns |-> SubSeq(stack, 1, Len(stack) - 1)]
    ELSE [pointer |-> p, returns |-> stack]

\* Interpreter.execute, up to the loop, for a parsed program.
Execute ==
    \E name \in DOMAIN programs :
        /\ status # "running"
        /\ pointer' = 0
        /\ returns' = <<>>
        /\ variables' = lexicon_variables
        /\ current_program' = programs[name]
        /\ output' = <<>>
        /\ status' = "running"
        /\ UNCHANGED <<fd_vars, lib_vars>>
        /\ UNCHANGED <<programs, var_base>>

\* Interpreter.execute for a name that parse has not stored: programs[name]
\* raises KeyError after the first three assignments.
ExecuteUnparsed ==
    \E name \in {"p", "q"} \ DOMAIN programs :
        /\ status # "running"
        /\ pointer' = 0
        /\ returns' = <<>>
        /\ variables' = lexicon_variables
        /\ output' = <<>>
        /\ status' = "KeyError"
        /\ UNCHANGED <<fd_vars, lib_vars>>
        /\ UNCHANGED <<programs, current_program, var_base>>

\* The line fetch of an empty program raises IndexError.
FetchError ==
    /\ status = "running"
    /\ pointer >= Len(current_program)
    /\ status' = "IndexError"
    /\ UNCHANGED <<fd_vars, lib_vars>>
    /\ UNCHANGED <<programs, current_program, pointer, returns, variables,
                   var_base, output>>

\* Interpreter.exec_assign
ExecAssign ==
    /\ Fetch("assign")
    /\ LET value == evaluate(variables, Line.args[2])
           r == setitem(LexChars, FALSE, var_base, variables,
                        Line.args[1].word, value)
       IN  /\ variables' = r.data
           /\ var_base' = r.base
    /\ pointer' = pointer + 1
    /\ status' = Finish(pointer')
    /\ UNCHANGED <<fd_vars, lib_vars>>
    /\ UNCHANGED <<programs, current_program, returns, output>>

\* Interpreter.exec_calculate
ExecCalculate ==
    /\ Fetch("calculate")
    /\ Len(output) < MaxOutput
    /\ LET value == evaluate(variables, Line.args[1])
       IN  output' = Append(output,
                        PrintedNum(num(value),
                                   IF fraction(value)[2] # 0 THEN "float"
                                   ELSE "int"))
    /\ pointer' = pointer + 1
    /\ status' = Finish(pointer')
    /\ UNCHANGED <<fd_vars, lib_vars>>
    /\ UNCHANGED <<programs, current_program, returns, variables, var_base>>

\* Interpreter.exec_exit
ExecExit ==
    /\ Fetch("exit")
    /\ pointer' = exec_exit_pointer(current_program)
    /\ status' = Finish(pointer')
    /\ UNCHANGED <<fd_vars, lib_vars>>
    /\ UNCHANGED <<programs, current_program, returns, variables, var_base,
                   output>>

\* Interpreter.exec_go
ExecGo ==
    /\ Fetch("go")
    /\ Len(returns) < MaxReturns
    /\ returns' = Append(returns, pointer + 1)
    /\ pointer' = exec_go_target(variables, Line.args[1], current_program)
    /\ status' = Finish(pointer')
    /\ UNCHANGED <<fd_vars, lib_vars>>
    /\ UNCHANGED <<programs, current_program, variables, var_base, output>>

\* Interpreter.exec_if
ExecIf ==
    /\ Fetch("if")
    /\ pointer' = IF exec_if_skip(variables, Line.args[1])
                  THEN pointer + 2 ELSE pointer + 1
    /\ status' = Finish(pointer')
    /\ UNCHANGED <<fd_vars, lib_vars>>
    /\ UNCHANGED <<programs, current_program, returns, variables, var_base,
                   output>>

\* Interpreter.exec_print
ExecPrint ==
    /\ Fetch("print")
    /\ Len(output) < MaxOutput
    /\ output' = Append(output, Printed(evaluate(variables, Line.args[1])))
    /\ pointer' = pointer + 1
    /\ status' = Finish(pointer')
    /\ UNCHANGED <<fd_vars, lib_vars>>
    /\ UNCHANGED <<programs, current_program, returns, variables, var_base>>

\* Interpreter.exec_return
ExecReturn ==
    /\ Fetch("return")
    /\ LET r == exec_return(returns, pointer + 1)
       IN  /\ pointer' = r.pointer
           /\ returns' = r.returns
    /\ status' = Finish(pointer')
    /\ UNCHANGED <<fd_vars, lib_vars>>
    /\ UNCHANGED <<programs, current_program, variables, var_base, output>>

-----------------------------------------------------------------------------
(* The programs executed *)

\* The statements of the generated programs.
Statements == {
    Call("assign", <<Leaf(<<"b">>), Leaf(<<"x">>)>>),
    Call("assign", <<Leaf(<<"c">>), Leaf(<<"y">>)>>),
    Call("assign", <<Leaf(<<"b">>), Leaf(<<"c">>)>>),
    Call("print", <<Leaf(<<"b">>)>>),
    Call("calculate", <<Leaf(<<"c">>)>>),
    Call("go", <<Leaf(<<"a">>)>>),
    Call("go", <<Leaf(<<"c">>)>>),
    Call("go", <<Leaf(<<"b", "-">>)>>),
    Call("go", <<Leaf(<<"j">>)>>),
    Call("return", <<>>),
    Call("exit", <<>>),
    Call("if", <<Leaf(<<"b">>)>>),
    Call("if", <<Call("false", <<>>)>>) }

RECURSIVE ProgramsUpTo(_)
ProgramsUpTo(n) ==
    IF n = 0 THEN {<<>>}
    ELSE LET shorter == ProgramsUpTo(n - 1)
         IN  shorter \cup {Append(q, st) : q \in shorter, st \in Statements}

\* if false / print skipped / print shown
IfFalseProgram == <<
    Call("if", <<Call("false", <<>>)>>),
    Call("print", <<Leaf(<<"s", "k", "i", "p", "p", "e", "d">>)>>),
    Call("print", <<Leaf(<<"s", "h", "o", "w", "n">>)>>) >>

\* go c / print after / print start / return
GoReturnProgram == <<
    Call("go", <<Leaf(<<"c">>)>>),
    Call("print", <<Leaf(<<"a", "f", "t", "e", "r">>)>>),
    Call("print", <<Leaf(<<"s", "t", "a", "r", "t">>)>>),
    Call("return", <<>>) >>

ProgramSet == ProgramsUpTo(MaxProgLen) \cup {IfFalseProgram, GoReturnProgram}

\* Interpreter.__init__ and then parse: one program stored under the name p.
InInit ==
    /\ programs \in [{"p"} -> ProgramSet]
    /\ current_program = <<>>
    /\ pointer = 0
    /\ returns = <<>>
    /\ variables = EmptyDict
    /\ var_base = {}
    /\ output = <<>>
    /\ status = "idle"

FdIdle ==
    /\ fd_strict = TRUE
    /\ fd_base = {}
    /\ fd_data = EmptyDict
    /\ fd_key = <<>>
    /\ fd_value = None
    /\ fd_raised = FALSE

Init == InInit /\ FdIdle /\ NmIdle /\ LxIdle /\ PsIdle /\ OdIdle

Next ==
    \/ Execute
    \/ ExecuteUnparsed
    \/ FetchError
    \/ ExecAssign
    \/ ExecCalculate
    \/ ExecExit
    \/ ExecGo
    \/ ExecIf
    \/ ExecPrint
    \/ ExecReturn

Spec == Init /\ [][Next]_vars

-----------------------------------------------------------------------------
(* The number methods of the Lexicon, called on arbitrary arguments.  The  *)
(* methods read the character classes only and write nothing, so a call    *)
(* does not depend on the calls before it: a behaviour makes one call.     *)

\* The words handed to float, num, add and subtract: a zero digit, a digit
\* whose double carries, the decimal point and the sign.
NmAlphabet == {"a", "f", ".", "-"}
NmWords == WordsUpTo(NmAlphabet, MaxWord)

\* The fractions handed to word: any parts, the denominator a power of the
\* base.
NmFractions ==
    {<<whole, numerator, denominator>> :
        whole \in (0 - MaxFrac)..MaxFrac,
        numerator \in (0 - MaxFrac)..MaxFrac,
        denominator \in {1, lex_base, lex_base * lex_base}}

NmCall(op, a, b, frac) == [op |-> op, a |-> a, b |-> b, frac |-> frac]
NmWordResult(w) == [word |-> w, number |-> <<0, 1>>]
NmNumberResult(x) == [word |-> <<>>, number |-> x]

\* lexicon.word(frac)
NmWord ==
    \E frac \in NmFractions :
        /\ nm_call.op = "none"
        /\ nm_call' = NmCall("word", <<>>, <<>>, frac)
        /\ nm_res' = NmWordResult(word(frac))
        /\ UNCHANGED <<fd_vars, od_vars, in_vars, lx_vars, ps_vars>>

\* lexicon.float(a)
NmFloat ==
    \E a \in NmWords :
        /\ nm_call.op = "none"
        /\ nm_call' = NmCall("float", a, <<>>, <<0, 0, 1>>)
        /\ nm_res' = NmNumberResult(float(a))
        /\ UNCHANGED <<fd_vars, od_vars, in_vars, lx_vars, ps_vars>>

\* lexicon.num(a)
NmNum ==
    \E a \in NmWords :
        /\ nm_call.op = "none"
        /\ nm_call' = NmCall("num", a, <<>>, <<0, 0, 1>>)
        /\ nm_res' = NmNumberResult(num(a))
        /\ UNCHANGED <<fd_vars, od_vars, in_vars, lx_vars, ps_vars>>

\* lexicon.add(a, b)
NmAdd ==
    \E a \in NmWords, b \in NmWords :
        /\ nm_call.op = "none"
        /\ nm_call' = NmCall("add", a, b, <<0, 0, 1>>)
        /\ nm_res' = NmWordResult(add(a, b))
        /\ UNCHANGED <<fd_vars, od_vars, in_vars, lx_vars, ps_vars>>

\* lexicon.subtract(a, b)
NmSubtract ==
    \E a \in NmWords, b \in NmWords :
        /\ nm_call.op = "none"
        /\ nm_call' = NmCall("subtract", a, b, <<0, 0, 1>>)
        /\ nm_res' = NmWordResult(subtract(a, b))
        /\ UNCHANGED <<fd_vars, od_vars, in_vars, lx_vars, ps_vars>>

\* lexicon.mod(a, b)
NmMod ==
    \E a \in NmWords, b \in NmWords :
        /\ nm_call.op = "none"
        /\ nm_call' = NmCall("mod", a, b, <<0, 0, 1>>)
        /\ nm_res' = NmWordResult(mod(a, b))
        /\ UNCHANGED <<fd_vars, od_vars, in_vars, lx_vars, ps_vars>>

\* The evaluation of the application multiply a b, the variables empty.
NmMultiply ==
    \E a \in NmWords, b \in NmWords :
        /\ nm_call.op = "none"
        /\ nm_call' = NmCall("multiply", a, b, <<0, 0, 1>>)
        /\ nm_res' = NmWordResult(evaluate(lexicon_variables,
                          Call("multiply", <<Leaf(a), Leaf(b)>>)))
        /\ UNCHANGED <<fd_vars, od_vars, in_vars, lx_vars, ps_vars>>

\* The evaluation of the application modulus a b, the variables empty.
NmModulus ==
    \E a \in NmWords, b \in NmWords :
        /\ nm_call.op = "none"
        /\ nm_call' = NmCall("modulus", a, b, <<0, 0, 1>>)
        /\ nm_res' = NmWordResult(evaluate(lexicon_variables,
                          Call("modulus", <<Leaf(a), Leaf(b)>>)))
        /\ UNCHANGED <<fd_vars, od_vars, in_vars, lx_vars, ps_vars>>

InitNum == NmIdle /\ FdIdle /\ InIdle /\ LxIdle /\ PsIdle /\ OdIdle

NextNum ==
    \/ NmWord
    \/ NmFloat
    \/ NmNum
    \/ NmAdd
    \/ NmSubtract
    \/ NmMod
    \/ NmMultiply
    \/ NmModulus

SpecNum == InitNum /\ [][NextNum]_vars

-----------------------------------------------------------------------------
(* Lexicon.__init__ on arbitrary statement lines, and tight on arbitrary   *)
(* words of the loaded lexicon                                             *)

\* The statement names and the aliases of the files: three spellings of the
\* number 1, then 1.5, 2 and -2.
LexKeys == {"go", "if"}
LexAliases ==
    { <<"b">>, <<"b", "x">>, <<"x", "b">>, <<"b", ".", "f">>, <<"c">>,
      <<"c", "-">> }

\* The sequences of at most n items of a set.
RECURSIVE SeqsUpTo(_, _)
SeqsUpTo(S, n) ==
    IF n = 0 THEN {<<>>}
    ELSE LET shorter == SeqsUpTo(S, n - 1)
         IN  shorter \cup {Append(q, x) : q \in shorter, x \in S}

\* The files: lines of one alias each, or one line of several aliases.
LexFiles ==
    SeqsUpTo({LexLine(key, <<alias>>) : key \in LexKeys, alias \in LexAliases},
             MaxLines)
      \cup {<<LexLine(key, value)>> :
                key \in LexKeys, value \in SeqsUpTo(LexAliases, MaxLines) \ {<<>>}}

\* The words handed to tight: the aliases, numbers below, between and above
\* them, and the midpoints 1.25 and 1.75.
TightWords ==
    LexAliases \cup
    { <<"a">>, <<"j">>, <<"d", "-">>, <<"b", ".", "c", "f">>,
      <<"b", ".", "h", "f">>, <<"b", ".", "c">> }

LexInit ==
    /\ lex_file \in LexFiles
    /\ lex_status = "file"
    /\ commands = <<>>
    /\ breaks = <<>>
    /\ tight_word = <<>>
    /\ tight_result = ""

\* Lexicon.__init__: the statement lines are read and the bisection lists
\* are built.  With fewer than two statement aliases the name second is
\* not bound when the last command is appended.
LexLoad ==
    /\ lex_status = "file"
    /\ LET sorted == sort(read_lines(<<>>, lex_file))
       IN  IF Len(sorted) < 2
           THEN /\ lex_status' = "NameError"
                /\ UNCHANGED <<commands, breaks>>
           ELSE /\ lex_status' = "loaded"
                /\ commands' = bisection_commands(sorted)
                /\ breaks' = bisection_breaks(sorted)
    /\ UNCHANGED <<lex_file, tight_word, tight_result>>
    /\ UNCHANGED <<fd_vars, od_vars, in_vars, nm_vars, ps_vars>>

\* lexicon.tight(w)
LexTight ==
    /\ lex_status = "loaded"
    /\ \E w \in TightWords :
          /\ tight_word' = w
          /\ tight_result' = tight(commands, breaks, w)
    /\ UNCHANGED <<lex_file, lex_status, commands, breaks>>
    /\ UNCHANGED <<fd_vars, od_vars, in_vars, nm_vars, ps_vars>>

InitLex == LexInit /\ FdIdle /\ InIdle /\ NmIdle /\ PsIdle /\ OdIdle

NextLex ==
    \/ LexLoad
    \/ LexTight

SpecLex == InitLex /\ [][NextLex]_vars

-----------------------------------------------------------------------------
(* Interpreter.parse on arbitrary code files *)

\* The words of the code files: statement names of every arity, the three
\* functions, a word one character off add, and a word that is neither.
ParseTokens ==
    { <<"p", "r", "i", "n", "t">>, <<"a", "s", "s", "i", "g", "n">>,
      <<"e", "x", "i", "t">>, <<"a", "d", "d">>, <<"a", "d", "c">>,
      <<"f", "a", "l", "s", "e">>, <<"n", "o", "t">>, <<"b">> }

\* parse has read the file into the stack and stored an empty program.
PsInit ==
    /\ code_file \in SeqsUpTo(ParseTokens, MaxTokens)
    /\ raw_code = code_file
    /\ parsed = <<>>

\* One turn of the loop of Interpreter.parse.
ParseLine ==
    /\ raw_code # <<>>
    /\ parsed' = Append(parsed, parse_line(raw_code).line)
    /\ raw_code' = parse_line(raw_code).rest
    /\ UNCHANGED code_file
    /\ UNCHANGED <<fd_vars, od_vars, in_vars, nm_vars, lx_vars>>

InitParse == PsInit /\ FdIdle /\ InIdle /\ NmIdle /\ LxIdle /\ OdIdle

NextParse == ParseLine

SpecParse == InitParse /\ [][NextParse]_vars

-----------------------------------------------------------------------------
(* A strict FuzzyDict filled one key at a time, with the calls recorded. *)

\* The keys set: words of one and of two characters with neighbours among
\* them (aa and ab; ab, bb and cb; a and b), one of them behind a character
\* that is not in chars.
OdKeys ==
    { <<"a", "a">>, <<"a", "b">>, <<"x", "b", "b">>, <<"c", "b">>,
      <<"a">>, <<"b">> }

\* FuzzyDict.__setitem__ on the strict dictionary: a call that raises
\* leaves base and data as they were.
OdSetItem ==
    \E key \in OdKeys, value \in FValues :
        /\ Len(od_items) < MaxInserts
        /\ LET r == setitem(FChars, TRUE, od_base, od_data, key, value)
           IN  /\ od_items' = Append(od_items, <<key, value>>)
               /\ od_raised' = (od_raised \/ r.raised)
               /\ od_base' = r.base
               /\ od_data' = r.data
        /\ UNCHANGED <<fd_vars, in_vars, nm_vars, lx_vars, ps_vars>>

InitOrder == OdIdle /\ FdIdle /\ InIdle /\ NmIdle /\ LxIdle /\ PsIdle

NextOrder == OdSetItem

SpecOrder == InitOrder /\ [][NextOrder]_vars

-----------------------------------------------------------------------------
(* Properties of the dictionary under test *)

\* The trimmed keys the dictionary under test can hold.
FKeys == WordsUpTo(Range(FChars), MaxLen)

\* Hamming distance 1: same length, exactly one position differs.
Neighbour(a, b) ==
    /\ Len(a) = Len(b)
    /\ Cardinality({i \in 1..Len(a) : a[i] # b[i]}) = 1

\* The base keys at Hamming distance 1 from n.
Inducers(base, n) == {b \in base : Neighbour(b, n)}

Lookup(data, w) == getitem(FChars, data, w)

\* C1, first half: the call that puts the first base key k into an empty
\* dictionary makes every word whose trimmed form is k or a neighbour of k
\* resolve to k's value.
C1_First ==
    (fd_base = {} /\ fd_base' # {}) =>
        \A k \in fd_base' : \A w \in FWords :
            (trim(FChars, w) = k \/ Neighbour(trim(FChars, w), k))
                => Lookup(fd_data', w) = fd_value'

\* C1, second half: the dictionary holds k alone, inserted once (it is the
\* dictionary one insert into an empty one gives), and the call inserts k2,
\* a neighbour of k, with another value.
C1_Second ==
    \A k \in fd_base :
        LET v  == fd_data[k]
            k2 == trim(FChars, fd_key')
            v2 == fd_value'
        IN  ( /\ fd_base = {k}
              /\ fd_data = setitem(FChars, fd_strict, {}, EmptyDict, k, v).data
              /\ fd_base' = {k, k2}
              /\ Neighbour(k, k2)
              /\ v2 # v )
            => /\ Lookup(fd_data', k) = v
               /\ Lookup(fd_data', k2) = v2
               /\ \A w \in FWords :
                    LET n == trim(FChars, w)
                    IN  n \notin {k, k2} =>
                          /\ (Neighbour(n, k) /\ Neighbour(n, k2))
                                => Lookup(fd_data', w) = None
                          /\ (Neighbour(n, k) /\ ~Neighbour(n, k2))
                                => Lookup(fd_data', w) = v
                          /\ (~Neighbour(n, k) /\ Neighbour(n, k2))
                                => Lookup(fd_data', w) = v2

\* C1: substitution-neighbourhood symmetry.  With one base key k, every word
\* at Hamming distance 0 or 1 from k (after trimming) looks up k's value;
\* after a neighbour k2 of k is inserted with another value, k and k2 look up
\* their own values, every other key that neighbours both looks up None, and
\* every other key that neighbours one of them looks up that one's value.
C1_NeighbourhoodSymmetry == [][C1_First /\ C1_Second]_vars

\* Two adjacent base keys, inserted once each: aa -> x and ab -> y, the
\* shared neighbour ac is None, ba and bb hold the value of their one inducer.
C1_Witness ==
    /\ fd_base = {<<"a", "a">>, <<"a", "b">>}
    /\ <<"b", "b">> \in DOMAIN fd_data
    /\ fd_data[<<"a", "a">>] = <<"x">>
    /\ fd_data[<<"a", "b">>] = <<"y">>
    /\ fd_data[<<"a", "c">>] = None
    /\ fd_data[<<"b", "a">>] = <<"x">>
    /\ fd_data[<<"b", "b">>] = <<"y">>

C2_State ==
    /\ \A n \in DOMAIN fd_data :
          n \in fd_base \/ Inducers(fd_base, n) # {}
    /\ \A n \in (DOMAIN fd_data) \ fd_base :
          fd_data[n] # None =>
              /\ Cardinality(Inducers(fd_base, n)) = 1
              /\ \A b \in Inducers(fd_base, n) : fd_data[n] = fd_data[b]
    /\ \A n \in FKeys \ fd_base :
          Cardinality(Inducers(fd_base, n)) >= 2 =>
              n \in DOMAIN fd_data /\ fd_data[n] = None

C2_Step ==
    \A n \in (DOMAIN fd_data) \ fd_base :
        (fd_data[n] = None /\ n \notin fd_base') => fd_data'[n] = None

\* C2: after any sequence of inserts, strict or not, every stored key is a
\* base key or a neighbour of one; a stored non-base key with a value has
\* exactly one base key at Hamming distance 1 and holds that key's value; a
\* non-base key with two or more such base keys is stored as None; and a
\* non-base key that is None stays None until it becomes a base key.
C2_DerivedKeys == [](C2_State) /\ [][C2_Step]_vars

\* Base keys aa and bb: ab and ba are induced by both and are None, while ca
\* is induced by aa alone and holds its value.
C2_Witness ==
    /\ fd_base = {<<"a", "a">>, <<"b", "b">>}
    /\ fd_data[<<"a", "b">>] = None
    /\ fd_data[<<"b", "a">>] = None
    /\ fd_data[<<"c", "a">>] = fd_data[<<"a", "a">>]
    /\ fd_data[<<"a", "a">>] # fd_data[<<"b", "b">>]

\* C3: after any sequence of inserts, a non-base key at Hamming distance 1
\* from exactly one base key looks up that base key's current value.
C3_UnambiguousMatch ==
    \A n \in FKeys \ fd_base :
        \A b \in Inducers(fd_base, n) :
            Cardinality(Inducers(fd_base, n)) = 1
                => Lookup(fd_data, n) = fd_data[b]

C4_Step ==
    LET k == trim(FChars, fd_key')
    IN  /\ (fd_strict /\ k \in fd_base) =>
              /\ fd_raised'
              /\ fd_base' = fd_base
              /\ fd_data' = fd_data
        /\ (~fd_strict /\ k \in fd_base) =>
              /\ ~fd_raised'
              /\ k \in fd_base'
              /\ Lookup(fd_data', fd_key') = fd_value'
        /\ k \notin fd_base => ~fd_raised'

\* C4: in a strict dictionary an insert whose trimmed key is already a base
\* key raises KeyError and leaves base and data as they were; in a
\* non-strict one it succeeds and the key then looks up the new value; an
\* insert of a key that is not a base key (a derived one included) never
\* raises.
C4_KeyConflict == [][C4_Step]_vars

\* A strict dictionary has just refused a duplicate of one of its base keys.
C4_Witness ==
    /\ fd_strict
    /\ fd_raised
    /\ trim(FChars, fd_key) \in fd_base
    /\ fd_data[trim(FChars, fd_key)] # fd_value

-----------------------------------------------------------------------------
(* Properties of the interpreter *)

\* TRUE iff the step taken is the loop body of execute on a statement.
Executing(statement) ==
    /\ status = "running"
    /\ pointer < Len(current_program)
    /\ Line.head = statement

\* Some words with the trimmed form of w.
Equivalent(w) == {w, <<"x">> \o w, w \o <<"z">>}

\* The keys assigned by the current call of execute.
Assigned == var_base \cap DOMAIN variables

C5_Step ==
    LET assign == Executing("assign")
        name == IF assign THEN trim(LexChars, Line.args[1].word) ELSE <<>>
    IN  /\ assign =>
              \A w \in Equivalent(Line.args[1].word) :
                  evaluate(variables', Leaf(w))
                      = evaluate(variables, Line.args[2])
        /\ status = "running" =>
              \A key \in Assigned :
                  ~(assign /\ key = name) =>
                      \A w \in Equivalent(key) :
                          evaluate(variables', Leaf(w)) = variables[key]

\* C5: an assign makes every leaf word with the trimmed form of its name
\* evaluate to the value assigned, and no later statement other than an
\* assign to an equivalent name changes what such a word evaluates to,
\* assigns to names at Hamming distance 1 included.
C5_WritesVisible == [][C5_Step]_vars

\* b and c, one substitution apart, have both been assigned, and a print of
\* b after that wrote b's value.
C5_Witness ==
    /\ {<<"b">>, <<"c">>} \subseteq Assigned
    /\ variables[<<"b">>] = <<"x">>
    /\ variables[<<"c">>] = <<"y">>
    /\ variables[<<"d">>] = None
    /\ output = <<Printed(<<"x">>)>>

C6_Step ==
    Executing("go") =>
        LET i == pointer
            n == Len(current_program)
            t == lex_int(evaluate(variables, Line.args[1]))
        IN  /\ returns' = Append(returns, i + 1)
            /\ pointer' = (t - 1) % n
            /\ 0 <= pointer' /\ pointer' < n
            /\ variables' = variables
            /\ var_base' = var_base

\* C6: go T at line i of a program of n lines pushes i + 1 on returns and
\* sets the pointer to (int(eval(T)) - 1) mod n, which lies in 0..n-1 for
\* every target, and leaves the variables alone.
C6_Go == [][C6_Step]_vars

\* go b- (the number -1) at line 0 of a program of three lines has jumped to
\* line (-1 - 1) mod 3 = 1 and saved 1.
C6_Witness ==
    /\ status = "running"
    /\ Len(current_program) = 3
    /\ current_program[1] = Call("go", <<Leaf(<<"b", "-">>)>>)
    /\ current_program[2].head = "exit"
    /\ returns = <<1>>
    /\ pointer = 1

C7_State ==
    \A j \in 1..Len(returns) :
        /\ returns[j] \in 1..Len(current_program)
        /\ current_program[returns[j]].head = "go"

C7_Step ==
    /\ Executing("go") => returns' = Append(returns, pointer + 1)
    /\ (Executing("return") /\ returns # <<>>) =>
          /\ pointer' = returns[Len(returns)]
          /\ returns' = SubSeq(returns, 1, Len(returns) - 1)
    /\ (Executing("return") /\ returns = <<>>) =>
          /\ returns' = <<>>
          /\ pointer' = pointer + 1
          /\ variables' = variables
          /\ var_base' = var_base
    /\ (status = "running" /\ ~Executing("go") /\ ~Executing("return")) =>
          returns' = returns

\* C7: returns holds, oldest first, the index after each go not yet returned
\* from; return with a non-empty stack removes the newest entry and resumes
\* there; return with an empty stack changes nothing and execution goes on
\* at the following line.
C7_Return == [](C7_State) /\ [][C7_Step]_vars

\* go c at line 0 and go j at line 1 are both pending and the return at line
\* 2 has undone the newer one: the pointer is back at 2 and returns is <<1>>.
C7_Witness ==
    /\ status = "running"
    /\ Len(current_program) = 3
    /\ current_program[1] = Call("go", <<Leaf(<<"c">>)>>)
    /\ current_program[2] = Call("go", <<Leaf(<<"j">>)>>)
    /\ current_program[3].head = "return"
    /\ returns = <<1>>
    /\ pointer = 2

C8_State == status = "done" => pointer >= Len(current_program)

C8_Step ==
    /\ Executing("exit") =>
          /\ pointer' = Len(current_program)
          /\ status' = "done"
          /\ output' = output
    /\ status = "done" =>
          /\ status' = "running" \/ status' = "KeyError"
          /\ pointer' = 0
          /\ output' = <<>>

\* C8: exit sets the pointer to the length of the program, writes nothing
\* and ends the call of execute, whatever returns holds; once the call has
\* ended nothing more happens until execute is called again.
C8_Exit == [](C8_State) /\ [][C8_Step]_vars

\* go c then exit: exit has ended the call with one entry on returns.
C8_Witness ==
    /\ status = "done"
    /\ current_program =
          <<Call("go", <<Leaf(<<"c">>)>>), Call("exit", <<>>)>>
    /\ returns = <<1>>
    /\ pointer = 2

shown == <<"s", "h", "o", "w", "n">>
after == <<"a", "f", "t", "e", "r">>
start == <<"s", "t", "a", "r", "t">>

\* C9: if skips the next statement exactly when its condition is false, and
\* the word of the false constant is numerically zero: the program
\* if false / print skipped / print shown writes shown only.
C9_IfFalseSkips ==
    (current_program = IfFalseProgram /\ status = "done")
        => output = <<Printed(shown)>>

\* C10 as stated: go c / print after / print start / return writes start,
\* then after, and ends.
C10_StartThenAfter ==
    (current_program = GoReturnProgram /\ status = "done")
        => output = <<Printed(start), Printed(after)>>

GoReturnOutput ==
    <<Printed(after), Printed(start), Printed(after), Printed(start)>>

\* C10 as amended: go c jumps to line index 1, so the program writes after,
\* start, after, start, in this order, and ends with returns empty.
C10_AfterStartTwice ==
    current_program = GoReturnProgram =>
        /\ Len(output) <= Len(GoReturnOutput)
        /\ output = SubSeq(GoReturnOutput, 1, Len(output))
        /\ status = "done" => (output = GoReturnOutput /\ returns = <<>>)

\* The go/return program has ended.
C10_Witness ==
    /\ current_program = GoReturnProgram
    /\ status = "done"
    /\ output = GoReturnOutput
    /\ pointer = 4

-----------------------------------------------------------------------------
(* Properties of the state an execution starts from *)

-----------------------------------------------------------------------------
(* Properties of the number methods *)

\* The value whole + numerator / denominator of a fraction, and -x, x + y.
frac_value(frac) == <<frac[1] * frac[3] + frac[2], frac[3]>>
num_neg(x) == <<0 - x[1], x[2]>>
num_add(x, y) == <<x[1] * y[2] + y[1] * x[2], x[2] * y[2]>>

\* A word without its sign characters.
Unsigned(w) == SelectSeq(w, LAMBDA c : c \notin Range(Signs))

\* C17: for every fraction, word returns a word whose num is the value
\* whole + numerator / denominator of the fraction; the word of a negative
\* value ends with the first sign character.
C17_WordRoundTrip ==
    nm_call.op = "word" =>
        /\ nm_res.word # Hangs
        /\ num_eq(num(nm_res.word), frac_value(nm_call.frac))
        /\ frac_value(nm_call.frac)[1] < 0 =>
              /\ nm_res.word # <<>>
              /\ nm_res.word[Len(nm_res.word)] = Signs[1]

\* C18: float and num of a word with an odd number of sign characters are
\* minus float and num of the word without them; with an even number they
\* are the same.
C18_SignNegates ==
    /\ nm_call.op = "float" =>
          num_eq(nm_res.number,
                 IF sign_count(nm_call.a, 1) % 2 = 1
                 THEN num_neg(float(Unsigned(nm_call.a)))
                 ELSE float(Unsigned(nm_call.a)))
    /\ nm_call.op = "num" =>
          num_eq(nm_res.number,
                 IF sign_count(nm_call.a, 1) % 2 = 1
                 THEN num_neg(num(Unsigned(nm_call.a)))
                 ELSE num(Unsigned(nm_call.a)))

\* C19: add and subtract return a word, whatever the two words are.
C19_ArithmeticReturns ==
    nm_call.op \in {"add", "subtract"} =>
        /\ nm_res.word # Hangs
        /\ Range(nm_res.word) \subseteq Range(LexChars)

\* C20: for two words without sign characters, num of add(a, b) is
\* num(a) + num(b).
C20_AddIsSum ==
    (/\ nm_call.op = "add"
     /\ sign_count(nm_call.a, 1) = 0
     /\ sign_count(nm_call.b, 1) = 0)
        => /\ nm_res.word # Hangs
           /\ num_eq(num(nm_res.word), num_add(num(nm_call.a), num(nm_call.b)))

-----------------------------------------------------------------------------
(* Properties of tight matching *)

\* The pairs <<statement, alias>> of the lines of a lexicon file.
Registered(file) ==
    UNION {{<<file[i].key, a>> : a \in Range(file[i].value)} :
              i \in {j \in 1..Len(file) : file[j].key \in Range(statements)}}

\* |x - y| on numbers.
num_dist(x, y) ==
    LET d == x[1] * y[2] - y[1] * x[2]
    IN  <<IF d < 0 THEN 0 - d ELSE d, x[2] * y[2]>>

\* tight has been called on the loaded lexicon.
TightCalled == lex_status = "loaded" /\ tight_result # ""

\* C14 as stated: tight of an alias returns every statement the alias is
\* registered under, whatever the numbers of the other aliases.
C14_AliasResolves ==
    TightCalled =>
        \A r \in Registered(lex_file) :
            r[2] = tight_word => tight_result = r[1]

\* C14 as amended: tight of an alias registered under a statement returns
\* this statement, provided no alias of another statement has the same
\* number; the order of the statement lines does not matter.
C14_AliasResolvesUntied ==
    TightCalled =>
        \A r \in Registered(lex_file) :
            (/\ r[2] = tight_word
             /\ \A q \in Registered(lex_file) :
                   q[1] # r[1] => ~num_eq(float(q[2]), float(r[2])))
                => tight_result = r[1]

\* tight was called on the alias 1.5 of if, between the aliases 1 and 2 of
\* go, the line of if being the last one; 1 has a second spelling under go.
C14_Witness ==
    /\ TightCalled
    /\ Len(lex_file) = 3
    /\ lex_file[3] = LexLine("if", << <<"b", ".", "f">> >>)
    /\ Registered(lex_file) =
          { <<"go", <<"c">> >>, <<"go", <<"b">> >>, <<"if", <<"b", ".", "f">> >> }
    /\ tight_word = <<"b", ".", "f">>
    /\ tight_result = "if"

\* C15: tight returns a statement one of whose aliases is as near to the
\* word, in number, as any alias of the lexicon is; it returns a statement
\* for every word.
C15_Nearest ==
    TightCalled =>
        /\ tight_result \in Range(statements)
        /\ \E r \in Registered(lex_file) :
              /\ r[1] = tight_result
              /\ \A q \in Registered(lex_file) :
                    ~num_lt(num_dist(float(q[2]), float(tight_word)),
                            num_dist(float(r[2]), float(tight_word)))

\* tight was called on the word 1.2, which is no alias: the nearest alias
\* is 1, under go, the next ones are 1.5 and -2, under if.
C15_Witness ==
    /\ TightCalled
    /\ tight_word = <<"b", ".", "c">>
    /\ tight_result = "go"
    /\ Registered(lex_file) =
          { <<"go", <<"b">> >>, <<"if", <<"b", ".", "f">> >>,
            <<"if", <<"c", "-">> >> }

\* C16 as stated: after a lexicon is loaded, every break is below the next
\* one, and there is one break fewer than commands.
C16_StrictBreaks ==
    lex_status = "loaded" =>
        /\ \A i \in 1..(Len(breaks) - 1) : num_lt(breaks[i], breaks[i + 1])
        /\ Len(breaks) = Len(commands) - 1

\* C16 as amended: after a lexicon is loaded, no break is above the next
\* one, and there is one break fewer than commands.
C16_SortedBreaks ==
    lex_status = "loaded" =>
        /\ \A i \in 1..(Len(breaks) - 1) : ~num_lt(breaks[i + 1], breaks[i])
        /\ Len(breaks) = Len(commands) - 1

\* A lexicon with three spellings of the number 1 is loaded: its two breaks
\* are equal.
C16_Witness ==
    /\ lex_status = "loaded"
    /\ Len(commands) = 3
    /\ Len(breaks) = 2
    /\ num_eq(breaks[1], breaks[2])

-----------------------------------------------------------------------------
(* Properties of the parser *)

\* Every node of a tree has as many children as args gives its head.
RECURSIVE WellFormed(_)
WellFormed(node) ==
    \/ node.head = ""
    \/ /\ node.head \in DOMAIN args
       /\ Len(node.args) = args[node.head]
       /\ \A i \in 1..Len(node.args) : WellFormed(node.args[i])

\* The number of words a tree is made of (args gives no head more than two
\* arguments).
RECURSIVE TokensOf(_)
TokensOf(node) ==
    IF node.args = <<>> THEN 1
    ELSE 1 + TokensOf(node.args[1])
           + (IF Len(node.args) > 1 THEN TokensOf(node.args[2]) ELSE 0)

\* The number of arguments a word asks for when it is read as an argument.
ArgumentsOf(token) ==
    LET function == getitem(LexChars, keywords, token)
    IN  IF function = None THEN 0 ELSE args[function[1]]

\* The stack runs out while pending arguments are still to be read.
RECURSIVE Underflows(_, _)
Underflows(raw, pending) ==
    /\ pending > 0
    /\ \/ raw = <<>>
       \/ Underflows(Tail(raw), pending - 1 + ArgumentsOf(Head(raw)))

\* C12: every node of every statement the parser has stored has exactly as
\* many children as the arity table says for its head.
C12_Arity ==
    \A i \in 1..Len(parsed) :
        /\ parsed[i].head \in Range(statements)
        /\ WellFormed(parsed[i])

\* print add b false was parsed: a function of two arguments, one of them
\* a function of none, under a statement of one.
C12_Witness ==
    /\ raw_code = <<>>
    /\ parsed =
          << Call("print",
                  << Call("add", <<Leaf(<<"b">>), Call("false", <<>>)>>) >>) >>

\* C13: a turn of the parser's loop keeps the statements stored so far and
\* appends one; it takes at least one word from the stack; when the stack
\* runs out while the arguments of the statement are read, at any depth,
\* the statement appended is exit and the stack is empty, which ends the
\* loop; otherwise the statement appended is made of the words taken.
C13_Step ==
    (raw_code # <<>>
     /\ <<raw_code, parsed>>' # <<raw_code, parsed>>)
        => /\ Len(parsed') = Len(parsed) + 1
           /\ SubSeq(parsed', 1, Len(parsed)) = parsed
           /\ Len(raw_code') < Len(raw_code)
           /\ LET line == parsed'[Len(parsed')]
                  statement == tight(parse_commands, parse_breaks, Head(raw_code))
              IN  IF Underflows(Tail(raw_code), args[statement])
                  THEN line = Call("exit", <<>>) /\ raw_code' = <<>>
                  ELSE /\ line.head = statement
                       /\ WellFormed(line)
                       /\ TokensOf(line) = Len(raw_code) - Len(raw_code')
                       /\ raw_code' =
                            SubSeq(raw_code, TokensOf(line) + 1, Len(raw_code))

C13_Truncation == [][C13_Step]_vars

\* print b print add was parsed: the second print ran out of words at the
\* arguments of add and became exit, after the first one was stored.
C13_Witness ==
    /\ code_file = << <<"p", "r", "i", "n", "t">>, <<"b">>,
                      <<"p", "r", "i", "n", "t">>, <<"a", "d", "d">> >>
    /\ raw_code = <<>>
    /\ parsed = << Call("print", <<Leaf(<<"b">>)>>), Call("exit", <<>>) >>

-----------------------------------------------------------------------------
(* Properties of multiply and modulus *)

\* x * y on numbers, and Python's x % y on integers, y not 0.
num_mul(x, y) == <<x[1] * y[1], x[2] * y[2]>>
py_mod(x, y) == IF y > 0 THEN x % y ELSE 0 - ((0 - x) % (0 - y))

\* The values of a call that did not return a word.
NoWord == {Hangs, ZeroDivisionError, TypeError, AttributeError}

\* C21: for two words without sign characters, multiply returns a word, and
\* the num of this word is num(a) * num(b).
C21_MultiplyIsProduct ==
    (/\ nm_call.op = "multiply"
     /\ sign_count(nm_call.a, 1) = 0
     /\ sign_count(nm_call.b, 1) = 0)
        => /\ nm_res.word \notin NoWord
           /\ num_eq(num(nm_res.word),
                     num_mul(num(nm_call.a), num(nm_call.b)))

\* C22: the evaluation of modulus x y, the whole part wy of y not 0, returns
\* the word of the fraction <<wx mod wy, nx, d>>, where <<wx, nx, d>> is the
\* fraction of x; it raises no error.
C22_ModulusWord ==
    (nm_call.op = "modulus" /\ lex_int(nm_call.b) # 0)
        => /\ nm_res.word \notin NoWord \ {Hangs}
           /\ nm_res.word =
                 word(<<py_mod(fraction(nm_call.a)[1], lex_int(nm_call.b)),
                        fraction(nm_call.a)[2], fraction(nm_call.a)[3]>>)

-----------------------------------------------------------------------------
(* Properties of execute on a name that was not parsed *)

\* A step of execute that does not start the loop: the name is not a key of
\* programs.
CalledUnparsed == status # "running" /\ status' # "running"

\* C23: execute of a program name that has not been parsed does nothing: it
\* raises no error, writes no output and executes no statement.
C23_UnparsedNothing ==
    [][CalledUnparsed
          => /\ status' # "KeyError"
             /\ output' = <<>>
             /\ current_program' = current_program]_vars

-----------------------------------------------------------------------------
(* Properties of the target of assign *)

\* C24: the target of assign is a raw token: the first argument of every
\* assign statement the parser has stored is a leaf word, never a function
\* application, also when the word after assign matches a function alias.
C24_RawTarget ==
    \A i \in 1..Len(parsed) :
        parsed[i].head = "assign" => parsed[i].args[1].head = ""

-----------------------------------------------------------------------------
(* Properties of the pointer *)

\* A program of at least one statement is executed: every line fetch has an
\* index of the program, a call that has ended left the pointer at or past
\* the end, and no fetch has failed.
C25_State ==
    Len(current_program) >= 1 =>
        /\ status = "running" => pointer \in 0..(Len(current_program) - 1)
        /\ status = "done" => pointer >= Len(current_program)
        /\ status # "IndexError"

\* A statement of such a program has run: the loop ends exactly when the
\* pointer is at or past the end of the program.
C25_Step ==
    (status = "running" /\ Len(current_program) >= 1)
        => /\ pointer' >= 0
           /\ (status' = "done") = (pointer' >= Len(current_program))
           /\ (status' = "running") = (pointer' < Len(current_program))

\* C25: the pointer never lands outside the program: in a program of at
\* least one statement every line fetch uses an index from 0 to the length
\* less one, and the loop of execute ends as soon as the pointer is at or
\* past the length, after if, return and go as after any other statement.
C25_PointerInside == [](C25_State) /\ [][C25_Step]_vars

\* An if on the last line of a program of three lines has skipped past the
\* end: the call has ended with the pointer one past the length.
C25_Witness ==
    /\ status = "done"
    /\ Len(current_program) = 3
    /\ current_program[3].head = "if"
    /\ pointer = Len(current_program) + 1

-----------------------------------------------------------------------------
(* Properties of the order of the inserts *)

\* The strict dictionary after __setitem__ was called with items[i..], in
\* this order, on the dictionary d.
RECURSIVE insert_all(_, _, _)
insert_all(d, items, i) ==
    IF i > Len(items) THEN d
    ELSE LET r == setitem(FChars, TRUE, d.base, d.data, items[i][1],
                          items[i][2])
         IN  insert_all([raised |-> d.raised \/ r.raised, base |-> r.base,
                         data |-> r.data],
                        items, i + 1)

\* The trimmed keys of the items are pairwise distinct.
DistinctKeys(items) ==
    \A i, j \in 1..Len(items) :
        trim(FChars, items[i][1]) = trim(FChars, items[j][1]) => i = j

\* The items in the order p, a permutation of their indices.
Reordered(items, p) == [i \in 1..Len(items) |-> items[p[i]]]

\* C26: the order of the inserts does not matter in a strict FuzzyDict: for
\* pairs with pairwise distinct trimmed keys, every permutation of the calls
\* raises nothing and gives the same base keys and the same answer to the
\* lookup of every word, also when a key set was stored before as a derived
\* or an ambiguous neighbour of a key set earlier.
C26_OrderIndependent ==
    DistinctKeys(od_items) =>
        /\ ~od_raised
        /\ \A p \in Permutations(1..Len(od_items)) :
              LET d == insert_all([raised |-> FALSE, base |-> {},
                                   data |-> EmptyDict],
                                  Reordered(od_items, p), 1)
              IN  /\ ~d.raised
                  /\ d.base = od_base
                  /\ \A w \in FWords : Lookup(d.data, w) = Lookup(od_data, w)

\* aa, then bb behind a character that is dropped, then ab with another
\* value: ab was stored as an ambiguous neighbour of both before it was set,
\* and ac and cb are ambiguous now.
C26_Witness ==
    /\ od_items = << << <<"a", "a">>, <<"x">> >>,
                     << <<"x", "b", "b">>, <<"x">> >>,
                     << <<"a", "b">>, <<"y">> >> >>
    /\ ~od_raised
    /\ Lookup(od_data, <<"a", "b">>) = <<"y">>
    /\ Lookup(od_data, <<"a", "c">>) = None
    /\ Lookup(od_data, <<"c", "b">>) = None
    /\ Lookup(od_data, <<"c", "a">>) = <<"x">>

====
